---- MODULE Spec2Model ----
(***************************************************************************)
(* Export-shipment dashboard (src/dashboard.py).                           *)
(*                                                                         *)
(* One run of main() is one action: the script is re-executed from the top *)
(* on every user interaction, reads the uploaded file, narrows the frame   *)
(* with the sidebar filters and renders the four tabs.  A Python exception *)
(* (a KeyError on an absent column) stops the script where it is raised:   *)
(* what was rendered before stays rendered, what follows is not rendered.  *)
(*                                                                         *)
(* Data representation.                                                    *)
(*   - a frame is [columns |-> set of column names, rows |-> sequence of   *)
(*     rows], a row is a function from the frame's columns to cells;       *)
(*   - a raw SB DATE cell is a calendar day (1 ..) with a time of day, or  *)
(*     the empty cell EmptyDate; a Timestamp is the integer                *)
(*     day * TicksPerDay + time-of-day and NaT stands for a missing one;   *)
(*   - a datetime.date (what st.date_input returns) is the day number;     *)
(*   - HSN_DESCRIPTION values are integers standing for the product        *)
(*     descriptions by their rank in sort order (groupby sorts its keys),  *)
(*     NoHsn is the missing one.                                           *)
(***************************************************************************)
EXTENDS Integers, Sequences, FiniteSets, TLC

VARIABLES
    pc,                \* "idle" | "done" | "error" | "view" (position of the script)
    file,              \* the uploaded file (NoFile before an upload)
    start_date,        \* value of the "Start Date" widget in this run
    end_date,          \* value of the "End Date" widget in this run
    date_view,         \* df after the date-range filter (line 60)
    port_options,      \* options offered by the three multiselects
    country_options,
    discharge_options,
    ports,             \* the three selections
    countries,
    discharge_ports,
    df,                \* the frame the tabs are rendered from (the Filtered View)
    shown,             \* names of the outputs this run has rendered
    out,               \* their values, by output name
    error              \* "none" or the call that raised

vars == << pc, file, start_date, end_date, date_view, port_options,
           country_options, discharge_options, ports, countries,
           discharge_ports, df, shown, out, error >>

-----------------------------------------------------------------------------
(* Bounds of the model *)

MaxRows == 2
NumDays == 3
MaxTime == 1
NumHsn == 2
NumProducts == 11
MaxExtra == 1

(* Program constants *)

TopN == 10
PreviewRows == 1000

-----------------------------------------------------------------------------
(* Values *)

NaT == 0
NoHsn == 0
NoDate == 0
EmptyDate == [day |-> 0, tod |-> 0]
NoFrame == [columns |-> {}, rows |-> << >>]
NoFile == [uploaded |-> FALSE, columns |-> {}, rows |-> << >>]

SB_DATE == "SB DATE"
PORT_OF_LOADING == "PORT OF LOADING"
COUNTRY_OF_DESTINATION == "COUNTRY OF DESTINATION"
PORT_OF_DISCHARGE == "PORT OF DISCHARGE"
HSN_DESCRIPTION == "HSN_DESCRIPTION"
FOB == "FOB"
QUANTITY == "QUANTITY"

AllColumns ==
    { SB_DATE, PORT_OF_LOADING, COUNTRY_OF_DESTINATION, PORT_OF_DISCHARGE,
      HSN_DESCRIPTION, FOB, QUANTITY }

Days == 1 .. NumDays
TicksPerDay == MaxTime + 1

Range(s) == { s[i] : i \in DOMAIN s }

RECURSIVE SumSeq(_)
SumSeq(s) == IF s = << >> THEN 0 ELSE Head(s) + SumSeq(Tail(s))

RECURSIVE SetMin(_)
SetMin(S) ==
    LET x == CHOOSE y \in S : TRUE
    IN  IF S = {x} THEN x
        ELSE LET m == SetMin(S \ {x}) IN IF x < m THEN x ELSE m

RECURSIVE SetMax(_)
SetMax(S) ==
    LET x == CHOOSE y \in S : TRUE
    IN  IF S = {x} THEN x
        ELSE LET m == SetMax(S \ {x}) IN IF x > m THEN x ELSE m

RECURSIVE SortedSeq(_)
SortedSeq(S) ==
    IF S = {} THEN << >> ELSE LET m == SetMin(S) IN << m >> \o SortedSeq(S \ {m})

-----------------------------------------------------------------------------
(* Conversions between raw cells, Timestamps and dates *)

\* pd.to_datetime on a cell of the SB DATE column (line 50)
to_datetime(cell) ==
    IF cell = EmptyDate THEN NaT ELSE cell.day * TicksPerDay + cell.tod

\* pd.to_datetime on a datetime.date (lines 59-60): midnight of that day
date_to_datetime(d) == d * TicksPerDay

\* Timestamp -> datetime.date, as st.date_input stores its value (lines 57-58)
timestamp_date(ts) == ts \div TicksPerDay

-----------------------------------------------------------------------------
(* Frame helpers *)

\* load_data: the parsed sheet of the uploaded file
load_data(uploaded_file) ==
    [columns |-> uploaded_file.columns, rows |-> uploaded_file.rows]

\* lines 49-50: the SB DATE column rewritten as Timestamps
ConvertSbDate(d) ==
    IF SB_DATE \in d.columns
    THEN [d EXCEPT !.rows =
            [i \in DOMAIN d.rows |->
                [d.rows[i] EXCEPT ![SB_DATE] = to_datetime(@)]]]
    ELSE d

\* df['SB DATE'].min() / .max(): NaT is skipped
ValidDates(d) == { r[SB_DATE] : r \in Range(d.rows) } \ {NaT}
ColMin(d) == IF ValidDates(d) = {} THEN NaT ELSE SetMin(ValidDates(d))
ColMax(d) == IF ValidDates(d) = {} THEN NaT ELSE SetMax(ValidDates(d))

\* a comparison with NaT is False
InDateRange(ts, s, e) ==
    /\ ts # NaT
    /\ ts >= date_to_datetime(s)
    /\ ts <= date_to_datetime(e)

\* lines 59-60
DateFilter(d, s, e) ==
    LET keep(r) == InDateRange(r[SB_DATE], s, e)
    IN  [d EXCEPT !.rows = SelectSeq(d.rows, keep)]

\* (variant: the options are read from the loaded frame, not from the
\* frame narrowed so far)
Options_loaded(d, col) ==
    { IF col = SB_DATE THEN to_datetime(r[col]) ELSE r[col] : r \in Range(file.rows) }

\* df[col].unique(), the options of a multiselect
Options(d, col) == { r[col] : r \in Range(d.rows) }

\* df[df[col].isin(sel)]
IsinFilter(d, col, sel) ==
    LET keep(r) == r[col] \in sel
    IN  [d EXCEPT !.rows = SelectSeq(d.rows, keep)]

\* df[col] of a sequence of rows
Column(rows, col) == [i \in DOMAIN rows |-> rows[i][col]]

\* the rows of one HSN_DESCRIPTION group
ProductRows(d, p) ==
    LET keep(r) == r[HSN_DESCRIPTION] = p
    IN  SelectSeq(d.rows, keep)

\* groupby('HSN_DESCRIPTION'): the group keys, a missing key forms no group
Products(d) == { r[HSN_DESCRIPTION] : r \in Range(d.rows) } \ {NoHsn}

\* groupby('HSN_DESCRIPTION')[col].sum(): one entry per group, keys ascending
GroupSums(d, col) ==
    LET keys == SortedSeq(Products(d))
    IN  [i \in DOMAIN keys |->
            [key |-> keys[i], value |-> SumSeq(Column(ProductRows(d, keys[i]), col))]]

\* index of the first largest value of a non-empty series
RECURSIVE FirstMax(_, _, _)
FirstMax(s, i, best) ==
    IF i > Len(s) THEN best
    ELSE FirstMax(s, i + 1, IF s[i].value > s[best].value THEN i ELSE best)

RemoveAt(s, i) == SubSeq(s, 1, i - 1) \o SubSeq(s, i + 1, Len(s))

\* Series.nlargest(n): the n largest values, descending, ties in series order
RECURSIVE nlargest(_, _)
nlargest(s, n) ==
    IF n = 0 \/ s = << >> THEN << >>
    ELSE LET i == FirstMax(s, 1, 1)
         IN  << s[i] >> \o nlargest(RemoveAt(s, i), n - 1)

-----------------------------------------------------------------------------
(* The memoized aggregations (lines 14-36) *)

\* (variant: the bins span a fixed calendar, not the days of the frame)
compute_shipment_counts_calendar(d) ==
    LET onDay(day) ==
            LET keep(r) == r[SB_DATE] # NaT /\ timestamp_date(r[SB_DATE]) = day
            IN  Len(SelectSeq(d.rows, keep))
    IN  [i \in 1 .. NumDays |-> [date |-> date_to_datetime(i), Shipments |-> onDay(i)]]

\* (variant: grouped by the Timestamp itself, freq='D' forgotten)
compute_shipment_counts_raw(d) ==
    LET keys == SortedSeq(ValidDates(d))
        at(ts) ==
            LET keep(r) == r[SB_DATE] = ts
            IN  Len(SelectSeq(d.rows, keep))
    IN  [i \in DOMAIN keys |-> [date |-> keys[i], Shipments |-> at(keys[i])]]

\* groupby(pd.Grouper(key='SB DATE', freq='D')).size(): one bin per calendar
\* day from the first to the last day of the frame, empty bins included
compute_shipment_counts(d) ==
    IF ValidDates(d) = {} THEN << >>
    ELSE LET lo == timestamp_date(ColMin(d))
             hi == timestamp_date(ColMax(d))
             onDay(day) ==
                LET keep(r) == r[SB_DATE] # NaT /\ timestamp_date(r[SB_DATE]) = day
                IN  Len(SelectSeq(d.rows, keep))
         IN  [i \in 1 .. (hi - lo + 1) |->
                [date |-> date_to_datetime(lo + i - 1), Shipments |-> onDay(lo + i - 1)]]

\* groupby(['SB DATE', 'PORT OF LOADING'])['FOB'].sum(): one entry per pair
\* that occurs (the entries are kept as a set: their order, by date and then
\* by port name, is not modelled)
compute_port_trends(d) ==
    LET keys == { << r[SB_DATE], r[PORT_OF_LOADING] >> : r \in Range(d.rows) }
        grp(k) ==
            LET keep(r) == r[SB_DATE] = k[1] /\ r[PORT_OF_LOADING] = k[2]
            IN  SelectSeq(d.rows, keep)
    IN  { [date |-> k[1], port |-> k[2], FOB |-> SumSeq(Column(grp(k), FOB))] :
            k \in { kk \in keys : kk[1] # NaT } }

\* (variant: one entry too many is kept)
compute_product_fob_off_by_one(d) == nlargest(GroupSums(d, FOB), TopN + 1)

\* groupby('HSN_DESCRIPTION')['FOB'].sum().nlargest(10)
compute_product_fob(d) == nlargest(GroupSums(d, FOB), TopN)

\* groupby(['SB DATE', 'HSN_DESCRIPTION']).size()
compute_product_trends(d) ==
    LET keys == { << r[SB_DATE], r[HSN_DESCRIPTION] >> : r \in Range(d.rows) }
        cnt(k) ==
            LET keep(r) == r[SB_DATE] = k[1] /\ r[HSN_DESCRIPTION] = k[2]
            IN  Len(SelectSeq(d.rows, keep))
    IN  { [date |-> k[1], product |-> k[2], Shipments |-> cnt(k)] :
            k \in { kk \in keys : kk[1] # NaT /\ kk[2] # NoHsn } }

\* df['HSN_DESCRIPTION'].value_counts().nlargest(10)
compute_product_counts(d) ==
    LET keys == SortedSeq(Products(d))
    IN  nlargest([i \in DOMAIN keys |->
                    [key |-> keys[i], value |-> Len(ProductRows(d, keys[i]))]], TopN)

\* df['HSN_DESCRIPTION'].nunique()
compute_total_products(d) == Cardinality(Products(d))

\* line 139: groupby('HSN_DESCRIPTION')['QUANTITY'].sum().nlargest(10)
quantity_data(d) == nlargest(GroupSums(d, QUANTITY), TopN)

\* df['FOB'].sum() and df['FOB'].mean(): the mean is kept as the fraction
\* sum / n, and n = 0 is the NaN mean of an empty column
total_fob(d) == SumSeq(Column(d.rows, FOB))
mean_fob(d) == [sum |-> total_fob(d), n |-> Len(d.rows)]

\* df.head(1000)
head(d) ==
    SubSeq(d.rows, 1, IF Len(d.rows) < PreviewRows THEN Len(d.rows) ELSE PreviewRows)

-----------------------------------------------------------------------------
(* The four tabs (lines 82-141) *)

OutputNames ==
    { "filtered_data", "csv", "shipment_counts", "port_trends",
      "total_shipments", "mean_fob", "total_fob", "total_products",
      "product_fob", "quantity_data", "product_counts", "product_trends" }

\* the call that raises KeyError first, in script order, or "none"
FirstError(d) ==
    IF SB_DATE \notin d.columns THEN "compute_shipment_counts"
    ELSE IF PORT_OF_LOADING \in d.columns /\ FOB \notin d.columns
         THEN "compute_port_trends"
    ELSE IF FOB \notin d.columns THEN "mean_fob"
    ELSE "none"

\* tab1 (lines 84-89): always rendered
Tab1Shown(d) == { "filtered_data", "csv" }

\* tab2 (lines 91-111): the daily counts are computed with no column check,
\* the port trend behind a check of PORT OF LOADING alone
Tab2Shown(d) ==
    IF SB_DATE \notin d.columns THEN {}
    ELSE { "shipment_counts" } \cup
         ( IF PORT_OF_LOADING \in d.columns /\ FOB \in d.columns
           THEN { "port_trends" } ELSE {} )

\* tab3 (lines 113-122): reached when tab2 did not raise; FOB is read with
\* no column check
Tab3Shown(d) ==
    IF FirstError(d) \in { "compute_shipment_counts", "compute_port_trends" } THEN {}
    ELSE { "total_shipments" } \cup
         ( IF FOB \in d.columns THEN { "mean_fob", "total_fob" } ELSE {} )

\* tab4 (lines 124-141): reached when nothing raised before
Tab4Shown(d) ==
    IF FirstError(d) # "none" \/ HSN_DESCRIPTION \notin d.columns THEN {}
    ELSE { "total_products", "product_fob" } \cup
         ( IF QUANTITY \in d.columns THEN { "quantity_data" } ELSE {} )

RenderShown(d) == Tab1Shown(d) \cup Tab2Shown(d) \cup Tab3Shown(d) \cup Tab4Shown(d)

EmptyOut ==
    [ filtered_data |-> << >>, csv |-> NoFrame, shipment_counts |-> << >>,
      port_trends |-> {}, total_shipments |-> 0, mean_fob |-> [sum |-> 0, n |-> 0],
      total_fob |-> 0, total_products |-> 0, product_fob |-> << >>,
      quantity_data |-> << >>, product_counts |-> << >>, product_trends |-> {} ]

\* the values rendered from the frame d; compute_product_trends and
\* compute_product_counts are defined but main never calls them
RenderOut(d) ==
    LET sh == RenderShown(d)
    IN  [ EmptyOut EXCEPT
            !.filtered_data = head(d),
            !.csv = d,
            !.shipment_counts =
                IF "shipment_counts" \in sh THEN compute_shipment_counts(d) ELSE @,
            !.port_trends =
                IF "port_trends" \in sh THEN compute_port_trends(d) ELSE @,
            !.total_shipments =
                IF "total_shipments" \in sh THEN Len(d.rows) ELSE @,
            !.mean_fob = IF "mean_fob" \in sh THEN mean_fob(d) ELSE @,
            !.total_fob = IF "total_fob" \in sh THEN total_fob(d) ELSE @,
            !.total_products =
                IF "total_products" \in sh THEN compute_total_products(d) ELSE @,
            !.product_fob =
                IF "product_fob" \in sh THEN compute_product_fob(d) ELSE @,
            !.quantity_data =
                IF "quantity_data" \in sh THEN quantity_data(d) ELSE @ ]

-----------------------------------------------------------------------------
(* Uploaded files *)

Row(date, pol, cod, pod, hsn, fob, qty) ==
    (SB_DATE :> date) @@ (PORT_OF_LOADING :> pol) @@
    (COUNTRY_OF_DESTINATION :> cod) @@ (PORT_OF_DISCHARGE :> pod) @@
    (HSN_DESCRIPTION :> hsn) @@ (FOB :> fob) @@ (QUANTITY :> qty)

Restrict(row, cols) == [c \in cols |-> row[c]]

SeqsUpTo(S, n) == UNION { [1 .. k -> S] : k \in 0 .. n }

RawDates == { EmptyDate } \cup [day : Days, tod : 0 .. MaxTime]
PortValues == { "A", "B" }
CountryValues == { "X", "Y" }
DischargeValues == { "M", "N" }
FobValues == { 1, 2 }

FirstMidnight == [day |-> 1, tod |-> 0]
LastLate == [day |-> NumDays, tod |-> MaxTime]

\* rows that differ in SB DATE alone
DateRows == { Row(d, "A", "X", "M", 1, 1, 1) : d \in RawDates }

\* rows that differ in the three categorical filter columns
CatRows ==
    { Row(FirstMidnight, p, c, q, 1, 1, 1) :
        p \in PortValues, c \in CountryValues, q \in DischargeValues }

\* rows that differ in date, port and country together
MixRows ==
    { Row(d, p, c, "M", 1, 1, 1) :
        d \in { FirstMidnight, LastLate }, p \in PortValues, c \in CountryValues }

\* rows that differ in the aggregated columns
AggRows ==
    { Row(d, "A", "X", "M", h, f, f) :
        d \in { FirstMidnight, LastLate }, h \in 0 .. NumHsn, f \in FobValues }

RowSeqs ==
    SeqsUpTo(DateRows, MaxRows) \cup SeqsUpTo(CatRows, MaxRows)
        \cup SeqsUpTo(MixRows, MaxRows) \cup SeqsUpTo(AggRows, MaxRows)

\* rows of the files that lack columns
SampleRows ==
    { Row(FirstMidnight, "A", "X", "M", 1, 1, 1),
      Row(LastLate, "B", "Y", "N", 2, 2, 2) }

\* The default of a date input is the column's min() / max(): a file whose
\* SB DATE column holds no date at all hands NaT to the widget, which is
\* outside this model, so every file with the column holds one date at least.
HasDate(cols, rows) ==
    SB_DATE \in cols => \E i \in DOMAIN rows : rows[i][SB_DATE] # EmptyDate

FullFiles ==
    { [uploaded |-> TRUE, columns |-> AllColumns, rows |-> rs] :
        rs \in { x \in RowSeqs : HasDate(AllColumns, x) } }

PartialFiles ==
    UNION { { [uploaded |-> TRUE, columns |-> cs,
               rows |-> [i \in DOMAIN rs |-> Restrict(rs[i], cs)]] :
                rs \in { x \in SeqsUpTo(SampleRows, MaxRows) : HasDate(cs, x) } } :
            cs \in (SUBSET AllColumns) \ { AllColumns } }

Files == FullFiles \cup PartialFiles

-----------------------------------------------------------------------------
(* The script *)

Init ==
    /\ pc = "idle"
    /\ file = NoFile
    /\ start_date = NoDate
    /\ end_date = NoDate
    /\ date_view = NoFrame
    /\ port_options = {}
    /\ country_options = {}
    /\ discharge_options = {}
    /\ ports = {}
    /\ countries = {}
    /\ discharge_ports = {}
    /\ df = NoFrame
    /\ shown = {}
    /\ out = EmptyOut
    /\ error = "none"

\* line 43: the user uploads a file
UploadFile ==
    /\ pc = "idle"
    /\ ~file.uploaded
    /\ file' \in Files
    /\ UNCHANGED << pc, start_date, end_date, date_view, port_options,
                    country_options, discharge_options, ports, countries,
                    discharge_ports, df, shown, out, error >>

\* the options a multiselect offers and the frame after it (lines 62-78)
OptionsOf(d, col) == IF col \in d.columns THEN Options(d, col) ELSE {}
Narrow(d, col, sel) ==
    IF col \in d.columns /\ sel # {} THEN IsinFilter(d, col, sel) ELSE d

\* lines 39-141: one run of main() on the uploaded file.  The widget values
\* are the user's: any day for the two date inputs (their defaults are the
\* column's first and last day), any subset of the offered options for a
\* multiselect.
Main ==
    /\ pc = "idle"
    /\ file.uploaded
    /\ \E df0 \in { ConvertSbDate(load_data(file)) } :
       \E s \in (IF SB_DATE \in df0.columns THEN Days ELSE { NoDate }),
          e \in (IF SB_DATE \in df0.columns THEN Days ELSE { NoDate }) :
       \E df1 \in { IF SB_DATE \in df0.columns THEN DateFilter(df0, s, e) ELSE df0 } :
       \E p \in SUBSET OptionsOf(df1, PORT_OF_LOADING) :
       \E df2 \in { Narrow(df1, PORT_OF_LOADING, p) } :
       \E c \in SUBSET OptionsOf(df2, COUNTRY_OF_DESTINATION) :
       \E df3 \in { Narrow(df2, COUNTRY_OF_DESTINATION, c) } :
       \E q \in SUBSET OptionsOf(df3, PORT_OF_DISCHARGE) :
       \E df4 \in { Narrow(df3, PORT_OF_DISCHARGE, q) } :
          /\ start_date' = s
          /\ end_date' = e
          /\ date_view' = df1
          /\ port_options' = OptionsOf(df1, PORT_OF_LOADING)
          /\ ports' = p
          /\ country_options' = OptionsOf(df2, COUNTRY_OF_DESTINATION)
          /\ countries' = c
          /\ discharge_options' = OptionsOf(df3, PORT_OF_DISCHARGE)
          /\ discharge_ports' = q
          /\ df' = df4
          /\ shown' = RenderShown(df4)
          /\ out' = RenderOut(df4)
          /\ error' = FirstError(df4)
          /\ pc' = IF FirstError(df4) = "none" THEN "done" ELSE "error"
    /\ UNCHANGED file

\* the next interaction re-executes the script from the top
Rerun ==
    /\ pc \in { "done", "error" }
    /\ file.uploaded
    /\ pc' = "idle"
    /\ start_date' = NoDate
    /\ end_date' = NoDate
    /\ date_view' = NoFrame
    /\ port_options' = {}
    /\ country_options' = {}
    /\ discharge_options' = {}
    /\ ports' = {}
    /\ countries' = {}
    /\ discharge_ports' = {}
    /\ df' = NoFrame
    /\ shown' = {}
    /\ out' = EmptyOut
    /\ error' = "none"
    /\ UNCHANGED file

Next == UploadFile \/ Main \/ Rerun

Spec == Init /\ [][Next]_vars

-----------------------------------------------------------------------------
(* compute_product_fob on views with more products than the ranking keeps *)

ProductSets == SUBSET (1 .. NumProducts)

\* one shipment of FOB 1 for each product of S, in product order
BaseRows(S) ==
    LET keys == SortedSeq(S)
    IN  [i \in DOMAIN keys |->
            Row(FirstMidnight, "A", "X", "M", keys[i], 1, 1)]

\* further shipments: of a product that may be there already or of none,
\* with a negative, zero or positive FOB
ExtraRows ==
    { Row(FirstMidnight, "A", "X", "M", h, f, 1) :
        h \in { NoHsn, 1 }, f \in { 0 - 1, 0, 2 } }

FobViews ==
    { [columns |-> AllColumns, rows |-> BaseRows(S) \o x] :
        S \in ProductSets, x \in SeqsUpTo(ExtraRows, MaxExtra) }

InitFob ==
    /\ pc = "view"
    /\ file = NoFile
    /\ start_date = NoDate
    /\ end_date = NoDate
    /\ date_view = NoFrame
    /\ port_options = {}
    /\ country_options = {}
    /\ discharge_options = {}
    /\ ports = {}
    /\ countries = {}
    /\ discharge_ports = {}
    /\ df \in FobViews
    /\ shown = {}
    /\ out = EmptyOut
    /\ error = "none"

\* lines 118-132 on the view df: the FOB total and the product ranking
ProductAnalysis ==
    /\ pc = "view"
    /\ pc' = "done"
    /\ shown' = { "total_fob", "total_products", "product_fob" }
    /\ out' = [ EmptyOut EXCEPT
                  !.total_fob = total_fob(df),
                  !.total_products = compute_total_products(df),
                  !.product_fob = compute_product_fob(df) ]
    /\ UNCHANGED << file, start_date, end_date, date_view, port_options,
                    country_options, discharge_options, ports, countries,
                    discharge_ports, df, error >>

NextFob == ProductAnalysis

SpecFob == InitFob /\ [][NextFob]_vars

-----------------------------------------------------------------------------
(* Properties *)

Finished == pc \in { "done", "error" }

\* the frame main filters: the loaded sheet with SB DATE as Timestamps
Loaded == ConvertSbDate(load_data(file))

DayOf(r) == timestamp_date(r[SB_DATE])

\* the categorical part of the Filter Spec: a column that is there and has a
\* non-empty selection restricts, anything else does not
PassesSelections(r) ==
    /\ (PORT_OF_LOADING \in file.columns /\ ports # {}) => r[PORT_OF_LOADING] \in ports
    /\ (COUNTRY_OF_DESTINATION \in file.columns /\ countries # {})
           => r[COUNTRY_OF_DESTINATION] \in countries
    /\ (PORT_OF_DISCHARGE \in file.columns /\ discharge_ports # {})
           => r[PORT_OF_DISCHARGE] \in discharge_ports

\* SB DATE lies in [start, end], both calendar days
InSelectedDays(r) ==
    SB_DATE \in file.columns =>
        r[SB_DATE] # NaT /\ start_date <= DayOf(r) /\ DayOf(r) <= end_date

InFilterSpec(r) == InSelectedDays(r) /\ PassesSelections(r)

\* C1: the Filtered View is exactly the records of the dataset whose SB DATE
\* lies in [start, end] and whose value is in the selection for every
\* categorical dimension with a non-empty selection (read off a run that
\* completes).
C1_ViewIsConjunctionOfFilters ==
    pc = "done" => df.rows = SelectSeq(Loaded.rows, InFilterSpec)

\* the date inputs hold their defaults: the first and the last day of SB DATE
DatesAtDefault ==
    SB_DATE \in file.columns =>
        /\ start_date = timestamp_date(ColMin(Loaded))
        /\ end_date = timestamp_date(ColMax(Loaded))

\* C2: with the date inputs at their defaults and the three selections empty
\* the Filtered View is the loaded dataset, records without SB DATE included
\* (read off a run that completes).
C2_NoConstraintIsIdentity ==
    ( pc = "done" /\ DatesAtDefault /\ ports = {} /\ countries = {}
        /\ discharge_ports = {} ) => df.rows = Loaded.rows

\* C3: every record dated on the start day or on the end day, whatever its
\* time of day, is in the Filtered View when the other filters admit it
\* (read off a run that completes).
C3_DateRangeInclusiveByDay ==
    ( pc = "done" /\ SB_DATE \in file.columns /\ start_date <= end_date ) =>
        \A i \in DOMAIN Loaded.rows :
            LET r == Loaded.rows[i]
            IN  ( r[SB_DATE] # NaT /\ DayOf(r) \in { start_date, end_date }
                    /\ PassesSelections(r) ) => r \in Range(df.rows)

\* C4: whatever columns the file lacks, a run raises nothing: no filter,
\* aggregation or metric is invoked on a frame without the column it reads.
C4_AbsentColumnsNeverRaise ==
    Finished => ( pc = "done" /\ error = "none" )

\* C5: on an empty Filtered View every aggregation whose columns are there
\* returns an empty table, and the unique product count is 0.
C5_EmptyViewGivesEmptyAggregates ==
    ( Finished /\ df.rows = << >> ) =>
        /\ SB_DATE \in df.columns =>
              /\ compute_shipment_counts(df) = << >>
              /\ "shipment_counts" \in shown /\ out.shipment_counts = << >>
        /\ { SB_DATE, PORT_OF_LOADING, FOB } \subseteq df.columns =>
              /\ compute_port_trends(df) = {}
              /\ "port_trends" \in shown /\ out.port_trends = {}
        /\ { HSN_DESCRIPTION, FOB } \subseteq df.columns =>
              /\ compute_product_fob(df) = << >>
              /\ pc = "done" => "product_fob" \in shown /\ out.product_fob = << >>
        /\ HSN_DESCRIPTION \in df.columns =>
              /\ compute_product_counts(df) = << >>
              /\ compute_total_products(df) = 0
              /\ pc = "done" => "total_products" \in shown /\ out.total_products = 0
        /\ { SB_DATE, HSN_DESCRIPTION } \subseteq df.columns =>
              compute_product_trends(df) = {}
        /\ { HSN_DESCRIPTION, QUANTITY } \subseteq df.columns =>
              /\ quantity_data(df) = << >>
              /\ pc = "done" => "quantity_data" \in shown /\ out.quantity_data = << >>

\* a run on a file with every column whose date range is empty
C5_Witness ==
    /\ pc = "done"
    /\ file.columns = AllColumns
    /\ Len(file.rows) = MaxRows
    /\ start_date > end_date
    /\ df.rows = << >>
    /\ { "shipment_counts", "port_trends", "product_fob", "total_products",
         "quantity_data" } \subseteq shown

TopSum == SumSeq(Column(out.product_fob, "value"))

TopFobWithinTotal ==
    /\ TopSum <= out.total_fob
    /\ TopSum = out.total_fob <=> Cardinality(Products(df)) <= TopN

\* C6 as stated: the values of 'Top products by FOB' never sum to more than the
\* FOB of the whole view, and to exactly that iff the view has at most 10
\* distinct products.
C6_TopFobWithinTotal ==
    ( pc = "done" /\ "product_fob" \in shown /\ "total_fob" \in shown )
        => TopFobWithinTotal

AllFobNonNegative == \A i \in DOMAIN df.rows : df.rows[i][FOB] >= 0
AllFobPositive == \A i \in DOMAIN df.rows : df.rows[i][FOB] > 0
NoMissingProduct == \A i \in DOMAIN df.rows : df.rows[i][HSN_DESCRIPTION] # NoHsn

\* C6 (amended): when no FOB value is negative the top-10 sum never exceeds
\* the FOB of the whole view; when every FOB value is positive and every
\* record has an HSN_DESCRIPTION, the two are equal iff the view has at most
\* 10 distinct products.
C6_TopFobWithinTotal_Amended ==
    ( pc = "done" /\ "product_fob" \in shown /\ "total_fob" \in shown ) =>
        /\ AllFobNonNegative => TopSum <= out.total_fob
        /\ ( AllFobPositive /\ NoMissingProduct ) => TopFobWithinTotal

\* more than 10 products, all with positive FOB: a product is left out
C6_Witness ==
    /\ pc = "done"
    /\ "product_fob" \in shown
    /\ AllFobPositive /\ NoMissingProduct
    /\ Cardinality(Products(df)) > TopN
    /\ Len(out.product_fob) = TopN
    /\ TopSum < out.total_fob

DaysOfView == { timestamp_date(ts) : ts \in ValidDates(df) }
OnDay(day) == { i \in DOMAIN df.rows : df.rows[i][SB_DATE] # NaT /\ DayOf(df.rows[i]) = day }
TableDays(t) == { timestamp_date(t[i].date) : i \in DOMAIN t }

\* what C8 says of the table t apart from the days it lists
DailyCountsOf(t) ==
    /\ \A i \in DOMAIN t : t[i].date = date_to_datetime(timestamp_date(t[i].date))
    /\ \A i, j \in DOMAIN t : i < j => t[i].date < t[j].date
    /\ \A i \in DOMAIN t : t[i].Shipments = Cardinality(OnDay(timestamp_date(t[i].date)))
    /\ SumSeq(Column(t, "Shipments")) = Len(df.rows)
    /\ Len(df.rows) = 1 =>
          t = << [date |-> date_to_datetime(DayOf(df.rows[1])), Shipments |-> 1] >>

\* C8 as stated: the daily shipment counts have exactly one entry per calendar
\* day that occurs as SB DATE in the view, with the number of records of
\* that day, in ascending order, and the counts sum to the size of the view.
C8_DailyCountsPerOccurringDay ==
    ( Finished /\ "shipment_counts" \in shown ) =>
        /\ TableDays(out.shipment_counts) = DaysOfView
        /\ DailyCountsOf(out.shipment_counts)

\* C8 (amended): exactly one entry per calendar day from the first to the
\* last day that occurs in the view, a day without records counting 0.
C8_DailyCountsPerCalendarDay ==
    ( Finished /\ "shipment_counts" \in shown ) =>
        /\ TableDays(out.shipment_counts) =
              { d \in Days : \E a, b \in DaysOfView : a <= d /\ d <= b }
        /\ DailyCountsOf(out.shipment_counts)

\* two records two days apart: the day between them is listed with count 0
C8_Witness ==
    /\ pc = "done"
    /\ "shipment_counts" \in shown
    /\ Len(df.rows) = 2
    /\ \E d \in Days : { d, d + 2 } \subseteq DaysOfView
    /\ Len(out.shipment_counts) = 3
    /\ out.shipment_counts[2].Shipments = 0

AggregateTables ==
    { "shipment_counts", "port_trends", "product_fob", "product_counts",
      "product_trends", "total_products", "quantity_data" }
ScalarMetrics == { "total_shipments", "mean_fob", "total_fob" }

\* C9: a run on a file with every expected column exposes the Filtered
\* View, the seven aggregate tables and the three scalar metrics.
C9_RunExposesEveryOutput ==
    ( Finished /\ file.columns = AllColumns ) =>
        ( { "filtered_data", "csv" } \cup AggregateTables \cup ScalarMetrics )
            \subseteq shown

ValuesOf(d, col) == IF col \in d.columns THEN { r[col] : r \in Range(d.rows) } ELSE {}
After(d, col, sel) ==
    IF col \in d.columns /\ sel # {}
    THEN [d EXCEPT !.rows = SelectSeq(d.rows, LAMBDA r : r[col] \in sel)]
    ELSE d

\* C10: each multiselect offers the values of its column in the view narrowed
\* by the date filter and the selections before it, so a non-empty
\* date-filtered view with selections among the offered options gives a
\* non-empty Filtered View.
C10_CascadeKeepsViewNonEmpty ==
    Finished =>
        LET v1 == After(date_view, PORT_OF_LOADING, ports)
            v2 == After(v1, COUNTRY_OF_DESTINATION, countries)
        IN  /\ port_options = ValuesOf(date_view, PORT_OF_LOADING)
            /\ country_options = ValuesOf(v1, COUNTRY_OF_DESTINATION)
            /\ discharge_options = ValuesOf(v2, PORT_OF_DISCHARGE)
            /\ ( date_view.rows # << >> /\ ports \subseteq port_options
                   /\ countries \subseteq country_options
                   /\ discharge_ports \subseteq discharge_options )
                  => df.rows # << >>

\* a port is selected, the countries offered are those of that port only,
\* one of them is selected and records remain
C10_Witness ==
    /\ pc = "done"
    /\ ports # {} /\ ports # port_options
    /\ countries # {}
    /\ country_options # ValuesOf(date_view, COUNTRY_OF_DESTINATION)
    /\ df.rows # << >>
    /\ Len(df.rows) < Len(date_view.rows)

====
